---- MODULE Spec2Model ----
(***************************************************************************)
(* A model of the error object and stack-trace subsystem of                *)
(* lib/VM/JSError.cpp: trace capture (JSError::recordStackTrace), frame    *)
(* trimming (JSError::popFramesUntilInclusive), the lazy `stack` accessor  *)
(* (errorStackGetter / errorStackSetter), the default trace string         *)
(* (JSError::constructStackTraceString_RJS) and the call-site projector    *)
(* (JSError::constructCallSitesArray).                                     *)
(*                                                                         *)
(* Six specifications share the variables:                                 *)
(*   Spec         the runtime: errors, targets, the stack property, the    *)
(*                formatting hook and the calls nested inside it;          *)
(*   SpecCapture  recordStackTrace over all small live-frame stacks;       *)
(*   SpecFormat   the default string and the projector on long traces;     *)
(*   SpecHeader   JSError::toString and the header of the default string;  *)
(*   SpecThrow    one throw, its capture and a second capture, with the    *)
(*                arguments of the call kept in ret;                       *)
(*   SpecReceiver reads and writes of `stack` through other receivers.     *)
(***************************************************************************)
EXTENDS Integers, Sequences, FiniteSets, TLC

VARIABLES
    stacktrace,             \* JSError::stacktrace_            (per error)
    funcNames,              \* JSError::funcNames_             (per error)
    domains,                \* JSError::domains_               (per error)
    firstExposedFrameIndex, \* JSError::firstExposedFrameIndex_ (per error)
    stackProp,              \* the own `stack` property of each target
    prepareStackTrace,      \* Error.prepareStackTrace is a callable
    formattingStackTrace,   \* Runtime::formattingStackTrace()
    callStack,              \* errorStackGetter activations waiting in managed code
    ret                     \* what the last step did and returned

vars == <<stacktrace, funcNames, domains, firstExposedFrameIndex, stackProp,
          prepareStackTrace, formattingStackTrace, callStack, ret>>

errorVars == <<stacktrace, funcNames, domains, firstExposedFrameIndex>>

(***************************************************************************)
(* Bounds of the model.                                                    *)
(***************************************************************************)
\* live frames walked by one capture in SpecCapture
MaxFrames == 2
\* errorStackGetter activations nested in managed code
MaxDepth == 2
\* longest trace of SpecFormat
MaxTraceLen == 152
\* last trace index at which SpecFormat places the sentinel's frame
MaxSentinelPos == 2
\* longest trace of SpecHeader
MaxHeaderTrace == 1
\* live frames at the throw of SpecThrow
MaxThrowFrames == 2

(***************************************************************************)
(* Program constants.                                                      *)
(***************************************************************************)
PRINT_HEAD == 50
PRINT_TAIL == 50

(***************************************************************************)
(* Optional values: a null pointer / empty handle is None.                 *)
(***************************************************************************)
None == <<>>
Some(x) == <<x>>
IsSome(o) == o # <<>>
Get(o) == o[1]

Min(a, b) == IF a < b THEN a ELSE b

\* a null CodeBlock pointer
NullCB == "nullptr"
CodeBlocks == {"cbA", "cbB"}

\* CodeBlock::getRuntimeModule()->getDomain()
DomainOf(cb) == IF cb = "cbA" THEN "domain1" ELSE "domain2"

\* CodeBlock::getNameMayAllocate() as a string; "" when the symbol is not valid
CodeBlockName(cb) == IF cb = "cbA" THEN "fa" ELSE ""

\* HermesValue undefined in a name slot
Undefined == "<undefined>"

\* StackTraceInfo
StackTraceInfo(cb, off) == [codeBlock |-> cb, bytecodeOffset |-> off]
NativeInfo == StackTraceInfo(NullCB, 0)

(***************************************************************************)
(* Callables and live frames.                                              *)
(***************************************************************************)
\* named property descriptors found by getNamedDescriptorPredefined
Absent == [kind |-> "absent"]
DataProp(v) == [kind |-> "data", value |-> v]
AccessorProp == [kind |-> "accessor"]
ProxyProp == [kind |-> "proxy"]

JSFunction(cb, dn, nm) ==
    [kind |-> "JSFunction", codeBlock |-> cb, displayName |-> dn, name |-> nm]
NativeFunction(dn, nm) ==
    [kind |-> "NativeFunction", codeBlock |-> NullCB, displayName |-> dn, name |-> nm]
BoundFunction(target) ==
    [kind |-> "BoundFunction", codeBlock |-> NullCB, displayName |-> Absent,
     name |-> DataProp("bound"), target |-> target]
\* a callee slot holding a native pointer to a CodeBlock, not an object
RawCodeBlock(cb) ==
    [kind |-> "CodeBlock", codeBlock |-> cb, displayName |-> Absent, name |-> Absent]

FnA == JSFunction("cbA", Absent, DataProp("f"))
FnB == JSFunction("cbB", DataProp("g"), DataProp("h"))
NativeFn == NativeFunction(Absent, AccessorProp)

Callees == {FnA, FnB, NativeFn, RawCodeBlock("cbA")}

\* StackFramePtr::getCalleeCodeBlock
getCalleeCodeBlock(cf) ==
    IF cf.callee.kind \in {"JSFunction", "CodeBlock"}
    THEN cf.callee.codeBlock ELSE NullCB

Offsets == {3}

Frame(callee, savedCB, savedIP) ==
    [callee |-> callee, savedCodeBlock |-> savedCB, savedIP |-> savedIP]

\* what a frame saved of its caller: a code block and a return address, only
\* the address (the call went through a bound function), or neither (the
\* caller is native)
SavedLocations ==
    {<<cb, Some(o)>> : cb \in CodeBlocks \cup {NullCB}, o \in Offsets}
        \cup {<<NullCB, None>>}

Frames == {Frame(c, s[1], s[2]) : c \in Callees, s \in SavedLocations}

RECURSIVE StacksUpTo(_, _)
StacksUpTo(S, n) ==
    IF n = 0 THEN {<<>>}
    ELSE LET shorter == StacksUpTo(S, n - 1)
         IN  shorter \cup {<<f>> \o s : f \in S, s \in {t \in shorter : Len(t) = n - 1}}

Sentinels ==
    {FnA, FnB, NativeFn, BoundFunction(FnB), BoundFunction(BoundFunction(FnA)),
     BoundFunction(NativeFn)}

(***************************************************************************)
(* getCallStackFunctionNames: one name per walked frame, innermost first.  *)
(***************************************************************************)
\* a lookup that calls the getter of a name found as an accessor
C20_CallsGetter(callee) ==
    IF callee.kind \in {"JSFunction", "NativeFunction", "BoundFunction"}
    THEN LET desc == IF callee.displayName.kind # "absent"
                     THEN callee.displayName ELSE callee.name
         IN  IF desc.kind = "data" THEN desc.value
             ELSE IF desc.kind = "proxy" THEN "proxyTrap"
             ELSE IF desc.kind = "accessor" THEN "getterResult"
             ELSE Undefined
    ELSE IF callee.kind = "CodeBlock" /\ CodeBlockName(callee.codeBlock) # ""
         THEN CodeBlockName(callee.codeBlock)
         ELSE Undefined

\* the name recorded for one frame's callee
ResolveFrameName(callee) ==
    IF callee.kind \in {"JSFunction", "NativeFunction", "BoundFunction"}
    THEN LET desc == IF callee.displayName.kind # "absent"
                     THEN callee.displayName ELSE callee.name
         IN  IF desc.kind = "data" THEN desc.value
             ELSE IF desc.kind = "proxy" THEN "proxyTrap"
             ELSE Undefined
    ELSE IF callee.kind = "CodeBlock" /\ CodeBlockName(callee.codeBlock) # ""
         THEN CodeBlockName(callee.codeBlock)
         ELSE Undefined

\* a walk that skips no frame
C2_NeverSkips(frameIndex, skipTopFrame) == FALSE

\* `if (frameIndex++ == 0 && skipTopFrame) continue;`
SkipsFrame(frameIndex, skipTopFrame) == frameIndex = 0 /\ skipTopFrame

\* the loop over runtime.getStackFrames(); nameFail = Some(j): the j-th
\* PropStorage::resize fails
RECURSIVE namesLoop(_, _, _, _, _)
namesLoop(frames, frameIndex, skipTopFrame, names, nameFail) ==
    IF frameIndex >= Len(frames) THEN Some(names)
    ELSE IF SkipsFrame(frameIndex, skipTopFrame)
         THEN namesLoop(frames, frameIndex + 1, skipTopFrame, names, nameFail)
    ELSE IF nameFail = Some(Len(names) + 1) THEN None
    ELSE namesLoop(frames, frameIndex + 1, skipTopFrame,
                   Append(names, ResolveFrameName(frames[frameIndex + 1].callee)),
                   nameFail)

\* a walk that returns an empty list when PropStorage::create fails
C24_EmptyOnFailure(frames, skipTopFrame, nameFail) ==
    IF nameFail = Some(0) THEN Some(<<>>)
    ELSE namesLoop(frames, 0, skipTopFrame, <<>>, nameFail)

\* nameFail = Some(0): PropStorage::create fails
getCallStackFunctionNames(frames, skipTopFrame, nameFail) ==
    IF nameFail = Some(0) THEN None
    ELSE namesLoop(frames, 0, skipTopFrame, <<>>, nameFail)

(***************************************************************************)
(* JSError::recordStackTrace.                                              *)
(***************************************************************************)
\* a capture that does not look at the trace already there
C1_NeverRecorded(e) == FALSE

\* `if (selfHandle->stacktrace_) return RETURNED;`
AlreadyRecorded(e) == IsSome(stacktrace[e])

\* a capture that never takes the position for ambiguous
C16_NeverAmbiguous(skipTopFrame, codeBlock, frames) == FALSE

\* the top frame is a JSFunction and the caller gave no CodeBlock
AmbiguousTopFrame(skipTopFrame, codeBlock, frames) ==
    /\ ~skipTopFrame
    /\ codeBlock = NullCB
    /\ frames # <<>>
    /\ getCalleeCodeBlock(frames[1]) # NullCB

\* the entry for the current position, unless the top frame is skipped
TopEntries(skipTopFrame, codeBlock, ip) ==
    IF skipTopFrame THEN <<>>
    ELSE IF codeBlock # NullCB THEN <<StackTraceInfo(codeBlock, ip)>>
    ELSE <<NativeInfo>>

\* the entry pushed for live frame i (1 is the innermost): the saved return
\* location, with the code block taken from the caller's frame when it has one
FrameEntry(frames, i) ==
    LET cf == frames[i]
        parentCB == IF i < Len(frames) THEN getCalleeCodeBlock(frames[i + 1])
                    ELSE NullCB
        savedCodeBlock == IF parentCB # NullCB THEN parentCB ELSE cf.savedCodeBlock
    IN  IF savedCodeBlock # NullCB /\ IsSome(cf.savedIP)
        THEN StackTraceInfo(savedCodeBlock, Get(cf.savedIP))
        ELSE NativeInfo

\* a capture that pushes the entry of the current position last
C21_TopEntryLast(skipTopFrame, codeBlock, ip, frames) ==
    [i \in 1..Len(frames) |-> FrameEntry(frames, i)]
        \o TopEntries(skipTopFrame, codeBlock, ip)

\* the buffer before `stack->pop_back()`
CapturedEntries(skipTopFrame, codeBlock, ip, frames) ==
    TopEntries(skipTopFrame, codeBlock, ip)
        \o [i \in 1..Len(frames) |-> FrameEntry(frames, i)]

\* a capture that keeps each domain once
C22_FullDedup(entries) ==
    LET coded == SelectSeq(entries, LAMBDA sti : sti.codeBlock # NullCB)
        pushed(i) == \A k \in 1..(i - 1) :
                        DomainOf(coded[k].codeBlock) # DomainOf(coded[i].codeBlock)
        pushIndexes == SelectSeq([i \in 1..Len(coded) |-> i], pushed)
    IN  [j \in 1..Len(pushIndexes) |-> DomainOf(coded[pushIndexes[j]].codeBlock)]

\* The entries addDomain pushes a domain for, in order: those with a
\* CodeBlock whose domain is not the one pushed last.
DomainPushes(entries) ==
    LET coded == SelectSeq(entries, LAMBDA sti : sti.codeBlock # NullCB)
        pushed(i) == i = 1 \/ DomainOf(coded[i - 1].codeBlock) # DomainOf(coded[i].codeBlock)
        pushIndexes == SelectSeq([i \in 1..Len(coded) |-> i], pushed)
    IN  [j \in 1..Len(pushIndexes) |-> DomainOf(coded[pushIndexes[j]].codeBlock)]

\* addDomain over the entries in order, into the empty list of line 424;
\* domFail = Some(j), j > 0: the j-th ArrayStorageSmall::push_back fails
addDomains(entries, domFail) ==
    LET pushes == DomainPushes(entries)
    IN  IF IsSome(domFail) /\ Get(domFail) >= 1 /\ Get(domFail) <= Len(pushes)
        THEN [ok |-> FALSE, doms |-> SubSeq(pushes, 1, Get(domFail) - 1)]
        ELSE [ok |-> TRUE, doms |-> pushes]

\* `stack->pop_back()` on a buffer that holds an entry
DropLast(entries) == SubSeq(entries, 1, Len(entries) - 1)

\* what std::vector::pop_back may leave of an empty buffer: the size is
\* unspecified, the entries are not captured frames
GarbageTraces == {<<>>, <<NativeInfo>>, <<NativeInfo, NativeInfo>>}

RecordResult(e, status, trace, names, doms, sizeAtPop) ==
    [status |-> status, stacktrace |-> trace, funcNames |-> names,
     domains |-> doms, sizeAtPop |-> sizeAtPop]

RecordUnchanged(e, status) ==
    RecordResult(e, status, stacktrace[e], funcNames[e], domains[e], None)

\* a capture that stores the domains gathered so far when a push fails
C25_StoresPartialDomains(e, skipTopFrame, codeBlock, ip, frames, domFail, nameFail) ==
    IF AlreadyRecorded(e) THEN {RecordUnchanged(e, "RETURNED")}
    ELSE IF AmbiguousTopFrame(skipTopFrame, codeBlock, frames)
         THEN {RecordUnchanged(e, "RETURNED")}
    ELSE IF domFail = Some(0) THEN {RecordUnchanged(e, "EXCEPTION")}
    ELSE
      LET entries == CapturedEntries(skipTopFrame, codeBlock, ip, frames)
          added == addDomains(entries, domFail)
          names == getCallStackFunctionNames(frames, skipTopFrame, nameFail)
      IN  IF ~added.ok
          THEN {RecordResult(e, "EXCEPTION", stacktrace[e], funcNames[e],
                             Some(added.doms), None)}
          ELSE IF entries # <<>>
               THEN {RecordResult(e, "RETURNED", Some(DropLast(entries)), names,
                                  Some(added.doms), Some(Len(entries)))}
          ELSE {RecordResult(e, "ABORT", stacktrace[e], funcNames[e],
                             Some(added.doms), Some(0))}
               \cup {RecordResult(e, "UNDEFINED", Some(g), names,
                                  Some(added.doms), Some(0)) : g \in GarbageTraces}

\* The set of outcomes of one call; more than one only where the code's
\* behaviour is undefined (pop_back on an empty buffer): there the process is
\* aborted ("ABORT": a checked build) or goes on with a buffer of unspecified
\* size ("UNDEFINED"), after which nothing more is modelled.
recordStackTrace(e, skipTopFrame, codeBlock, ip, frames, domFail, nameFail) ==
    IF AlreadyRecorded(e) THEN {RecordUnchanged(e, "RETURNED")}
    ELSE IF AmbiguousTopFrame(skipTopFrame, codeBlock, frames)
         THEN {RecordUnchanged(e, "RETURNED")}
    ELSE IF domFail = Some(0) THEN {RecordUnchanged(e, "EXCEPTION")}
    ELSE
      LET entries == CapturedEntries(skipTopFrame, codeBlock, ip, frames)
          added == addDomains(entries, domFail)
          names == getCallStackFunctionNames(frames, skipTopFrame, nameFail)
      IN  IF ~added.ok THEN {RecordUnchanged(e, "EXCEPTION")}
          ELSE IF entries # <<>>
               THEN {RecordResult(e, "RETURNED", Some(DropLast(entries)), names,
                                  Some(added.doms), Some(Len(entries)))}
          ELSE {RecordResult(e, "ABORT", stacktrace[e], funcNames[e],
                             Some(added.doms), Some(0))}
               \cup {RecordResult(e, "UNDEFINED", Some(g), names,
                                  Some(added.doms), Some(0)) : g \in GarbageTraces}

(***************************************************************************)
(* JSError::popFramesUntilInclusive.                                       *)
(***************************************************************************)
\* a lookup that does not follow the targets of bound functions
C15_IgnoresBound(callable) ==
    IF callable.kind = "JSFunction" THEN callable.codeBlock ELSE NullCB

RECURSIVE getLeafCodeBlock(_)
getLeafCodeBlock(callable) ==
    IF callable.kind = "JSFunction" THEN callable.codeBlock
    ELSE IF callable.kind = "BoundFunction" THEN getLeafCodeBlock(callable.target)
    ELSE NullCB

\* a trimming that steps past the end of the trace
C14_PastTheEnd(trace, callable) == Len(trace) + 1

\* the new firstExposedFrameIndex_ for a trace and a sentinel
popFramesUntilInclusive(trace, callable) ==
    LET codeBlock == getLeafCodeBlock(callable)
        matches == {i \in 0..(Len(trace) - 1) : trace[i + 1].codeBlock = codeBlock}
    IN  IF codeBlock = NullCB \/ matches = {} THEN Len(trace)
        ELSE (CHOOSE i \in matches : \A j \in matches : i <= j) + 1

(***************************************************************************)
(* Values a `stack` read can produce or a property can hold.               *)
(***************************************************************************)
UndefinedValue == [kind |-> "undefined"]
EmptyString == [kind |-> "emptyString"]
\* Predefined::stacktraceTooLong
StacktraceTooLong == [kind |-> "stacktraceTooLong"]
DefaultString(header, lines) == [kind |-> "default", header |-> header, lines |-> lines]
HookValue(id) == [kind |-> "hookResult", id |-> id]
WrittenValue(id) == [kind |-> "written", id |-> id]

HookResults == {HookValue("h1")}
WrittenValues == {WrittenValue("w1")}

(***************************************************************************)
(* JSError::constructStackTraceString_RJS.                                 *)
(***************************************************************************)
\* What %Error.prototype.toString%(target) does: returns a string, or throws
\* a value: an uncatchable error, a primitive, or an object whose own
\* toString in turn returns or throws.
ToStringOk(s) == [kind |-> "returns", str |-> s]
ToStringThrowsUncatchable == [kind |-> "throwsUncatchable"]
ToStringThrowsPrimitive == [kind |-> "throwsPrimitive"]
ToStringThrowsObject(inner) == [kind |-> "throwsObject", inner |-> inner]

ToStringOutcomes ==
    {ToStringOk("Error: m"),
     ToStringThrowsUncatchable,
     ToStringThrowsPrimitive,
     ToStringThrowsObject(ToStringOk("TypeError: t")),
     ToStringThrowsObject(ToStringThrowsPrimitive),
     ToStringThrowsObject(ToStringThrowsUncatchable)}

(***************************************************************************)
(* JSError::toString: %Error.prototype.toString%(O).                       *)
(***************************************************************************)
\* What getNamed_RJS of a property followed by toString_RJS of its value
\* does: yields undefined or a string, or throws.
PropReturns(v) == [kind |-> "returns", value |-> v]
PropThrows(thrown) == [kind |-> "throws", thrown |-> thrown]

\* thrown values: an uncatchable error, a primitive, an object
Uncatchable == [kind |-> "uncatchable"]
Primitive == [kind |-> "primitive"]
ThrownObject(o) == [kind |-> "object", obj |-> o]

\* an object as toString sees it: its `name` and its `message`
ErrorLike(name, message) == [name |-> name, message |-> message]

NameValues == {Undefined, "", "E"}
MessageValues == {Undefined, "", "m"}

\* the objects a getter of the target throws
ThrownObjects ==
    {ErrorLike(n, m) :
        n \in {PropReturns(v) : v \in NameValues}
                \cup {PropThrows(Uncatchable), PropThrows(Primitive)},
        m \in {PropReturns("m")}}

Throwables == {Uncatchable, Primitive} \cup {ThrownObject(o) : o \in ThrownObjects}

PropBehaviours(values) ==
    {PropReturns(v) : v \in values} \cup {PropThrows(t) : t \in Throwables}

\* the targets whose string form the default string starts with
TargetObjects ==
    {ErrorLike(n, m) : n \in PropBehaviours(NameValues),
                       m \in PropBehaviours(MessageValues)}

\* the exception createStringBuilder raises: a catchable error object
BuilderError == ThrownObject(ErrorLike(PropReturns("RangeError"), PropReturns("")))

ToStringReturnsStr(s) == [kind |-> "returns", str |-> s]
ToStringThrows(thrown) == [kind |-> "throws", thrown |-> thrown]

\* `if (name->isUndefined()) nameStr = "Error"`,
\* `if (msg->isUndefined()) msgStr = ""`
DefaultTo(v, dflt) == IF v = Undefined THEN dflt ELSE v

\* a join that always puts the separator
C12_AlwaysJoins(nameStr, msgStr) == nameStr \o ": " \o msgStr

\* steps 7-9 of toString: the two strings joined
JoinNameMessage(nameStr, msgStr) ==
    IF nameStr = "" THEN msgStr
    ELSE IF msgStr = "" THEN nameStr
    ELSE nameStr \o ": " \o msgStr

\* JSError::toString(O); builderFails: createStringBuilder fails
toString(O, builderFails) ==
    IF O.name.kind = "throws" THEN ToStringThrows(O.name.thrown)
    ELSE IF O.message.kind = "throws" THEN ToStringThrows(O.message.thrown)
    ELSE LET nameStr == DefaultTo(O.name.value, "Error")
             msgStr == DefaultTo(O.message.value, "")
         IN  IF nameStr # "" /\ msgStr # "" /\ builderFails
             THEN ToStringThrows(BuilderError)
             ELSE ToStringReturnsStr(JoinNameMessage(nameStr, msgStr))

\* toString(target) as constructStackTraceString_RJS sees it: what it
\* returned or threw and, for a thrown object, what toString of that object
\* does in turn
toStringOfTarget(O, builderFails) ==
    LET res == toString(O, builderFails)
    IN  IF res.kind = "returns" THEN ToStringOk(res.str)
        ELSE IF res.thrown.kind = "uncatchable" THEN ToStringThrowsUncatchable
        ELSE IF res.thrown.kind = "primitive" THEN ToStringThrowsPrimitive
        ELSE LET inner == toString(res.thrown.obj, FALSE)
             IN  ToStringThrowsObject(
                    IF inner.kind = "returns" THEN ToStringOk(inner.str)
                    ELSE IF inner.thrown.kind = "uncatchable"
                         THEN ToStringThrowsUncatchable
                    ELSE ToStringThrowsPrimitive)  \* any catchable value

\* the first part of the string: None when an uncatchable error bubbles up
TraceHeader(ts) ==
    IF ts.kind = "returns" THEN Some([kind |-> "toString", text |-> ts.str])
    ELSE IF ts.kind = "throwsUncatchable" THEN None
    ELSE IF ts.kind = "throwsPrimitive" THEN Some([kind |-> "error"])
    ELSE IF ts.inner.kind = "returns"
         THEN Some([kind |-> "whileConverting", text |-> ts.inner.str])
    ELSE IF ts.inner.kind = "throwsUncatchable" THEN None
    ELSE Some([kind |-> "error"])

\* JSError::getFunctionNameAtIndex, with "anonymous" for a null result
\* (index is 0-based)
FunctionNameAtIndex(trace, names, index) ==
    LET explicit == IF IsSome(names) /\ Get(names)[index + 1] # Undefined
                    THEN Get(names)[index + 1] ELSE ""
        cb == trace[index + 1].codeBlock
        name == IF explicit = "" /\ cb # NullCB THEN CodeBlockName(cb) ELSE explicit
    IN  IF name = "" THEN "anonymous" ELSE name

\* JSError::getDebugInfo has a location for the code block
HasDebugInfo(cb) == cb = "cbA"

\* a location that prints a native frame as a bytecode address
C13_NativeAsAddress(sti) ==
    [kind |-> "address", file |-> "unknown", line |-> 1 + 1,
     column |-> sti.bytecodeOffset + 1000]

\* the text in parentheses after the function name
FrameLocation(sti) ==
    IF sti.codeBlock = NullCB THEN [kind |-> "native"]
    ELSE IF HasDebugInfo(sti.codeBlock)
         THEN [kind |-> "source", file |-> "a.js", line |-> 7,
               column |-> sti.bytecodeOffset + 1]
         ELSE [kind |-> "address", file |-> "unknown", line |-> 1 + 1,
               column |-> sti.bytecodeOffset + 1000]

AtLine(trace, names, absIndex) ==
    [kind |-> "at",
     name |-> FunctionNameAtIndex(trace, names, absIndex),
     loc |-> FrameLocation(trace[absIndex + 1])]

SkipLine(n) == [kind |-> "skipping", count |-> n]

\* a loop that resumes one frame early
C9_EarlyTail(max) == max - PRINT_TAIL - 1

\* a projector that ignores firstExposedFrameIndex_
C10_CountsWholeTrace(e) == IF IsSome(stacktrace[e]) THEN Len(Get(stacktrace[e])) ELSE 0

\* the trace is longer than the string shows
Truncates(max) == max > PRINT_HEAD + PRINT_TAIL

\* where the loop resumes after the marker
TailStart(max) == max - PRINT_TAIL

\* `for (index = 0, max = size - firstExposedFrameIndex_; index < max; index++)`:
\* the loop body is entered with `index` = i.  A truncating loop enters it
\* for 0..PRINT_HEAD + 1 and, after the jump to TailStart(max), for the
\* indexes after TailStart(max).
EntersBody(i, max) ==
    ~Truncates(max) \/ i <= PRINT_HEAD + 1 \/ i > TailStart(max)

\* `if (index > PRINT_HEAD && index < max - PRINT_TAIL) index = max - PRINT_TAIL;`
SkipMiddle(index, max) ==
    IF Truncates(max) /\ index > PRINT_HEAD /\ index < TailStart(max)
    THEN TailStart(max) ELSE index

\* what one pass of the loop body appends
BodyLine(trace, names, first, index, max) ==
    IF Truncates(max) /\ index = PRINT_HEAD
    THEN SkipLine(max - PRINT_HEAD - PRINT_TAIL)
    ELSE AtLine(trace, names, SkipMiddle(index, max) + first)

traceLines(trace, names, first, max) ==
    LET passes == SelectSeq([i \in 1..max |-> i - 1], LAMBDA i : EntersBody(i, max))
    IN  [j \in 1..Len(passes) |-> BodyLine(trace, names, first, passes[j], max)]

\* number of frames the string and the projector expose
ExposedFrames(e) == Len(Get(stacktrace[e])) - firstExposedFrameIndex[e]

\* The result for an error with a trace: None for ExecutionStatus::EXCEPTION.
constructStackTraceString(e, overflowed, ts) ==
    IF overflowed \/ ~IsSome(TraceHeader(ts)) THEN None
    ELSE Some(DefaultString(Get(TraceHeader(ts)),
                 traceLines(Get(stacktrace[e]), funcNames[e],
                            firstExposedFrameIndex[e], ExposedFrames(e))))

(***************************************************************************)
(* JSError::constructCallSitesArray.                                       *)
(***************************************************************************)
\* JSCallSite::create(runtime, selfHandle, absIndex)
CallSite(e, absIndex) == [error |-> e, index |-> absIndex]

\* number of call sites to create
CallSiteCount(e) == IF IsSome(stacktrace[e]) THEN ExposedFrames(e) ELSE 0

\* a projector that stops after PRINT_HEAD + PRINT_TAIL call sites
C17_TruncatesAtHundred(e, siteFail) ==
    LET all == CallSiteCount(e)
        max == IF all > PRINT_HEAD + PRINT_TAIL THEN PRINT_HEAD + PRINT_TAIL ELSE all
    IN  IF siteFail = Some(0) THEN None
        ELSE IF IsSome(siteFail) /\ Get(siteFail) <= max THEN None
        ELSE Some([j \in 1..max |-> CallSite(e, (j - 1) + firstExposedFrameIndex[e])])

\* siteFail = Some(0): JSArray::create fails; Some(j): the j-th
\* JSCallSite::create fails.  None for ExecutionStatus::EXCEPTION.
constructCallSitesArray(e, siteFail) ==
    LET max == CallSiteCount(e)
    IN  IF siteFail = Some(0) THEN None
        ELSE IF IsSome(siteFail) /\ Get(siteFail) <= max THEN None
        ELSE Some([j \in 1..max |-> CallSite(e, (j - 1) + firstExposedFrameIndex[e])])

SiteFails == {None, Some(0), Some(1)}

(***************************************************************************)
(* The objects of the runtime.                                             *)
(***************************************************************************)
Errors == {"e1", "e2"}
\* o1 and o2 are not errors: o1 holds e1 in its [[CapturedError]] slot, o2
\* has no error in its prototype chain
Targets == Errors \cup {"o1", "o2"}

\* getErrorFromStackTarget
getErrorFromStackTarget(t) ==
    IF t \in Errors THEN Some(t)
    ELSE IF t = "o1" THEN Some("e1")
    ELSE None

\* the object whose `stack` the steps of Spec write
MainTargets == {"e1"}

\* the objects whose `stack` the steps of Spec read: the errors, and o2
ReadTargets == Errors \cup {"o2"}

Init ==
    /\ stacktrace = [e \in Errors |-> None]
    /\ funcNames = [e \in Errors |-> None]
    /\ domains = [e \in Errors |-> None]
    /\ firstExposedFrameIndex = [e \in Errors |-> 0]
    /\ stackProp = [t \in Targets |-> AccessorProp]
    /\ prepareStackTrace = FALSE
    /\ formattingStackTrace = FALSE
    /\ callStack = <<>>
    /\ ret = [op |-> "none", status |-> "RETURNED"]

\* the process has not been aborted and its behaviour is still defined
Running == ret.status \notin {"ABORT", "UNDEFINED"}

(***************************************************************************)
(* Capture and trimming as steps.                                          *)
(***************************************************************************)
\* ret.managedTopNoCodeBlock: the caller gave no CodeBlock and the top live
\* frame runs one; ret.callees: the callees of the live frames when the
\* capture collected their names
RecordStep(e, skipTopFrame, codeBlock, ip, frames, domFail, nameFail) ==
    \E out \in recordStackTrace(e, skipTopFrame, codeBlock, ip, frames,
                                domFail, nameFail) :
        /\ stacktrace' = [stacktrace EXCEPT ![e] = out.stacktrace]
        /\ funcNames' = [funcNames EXCEPT ![e] = out.funcNames]
        /\ domains' = [domains EXCEPT ![e] = out.domains]
        /\ ret' = [op |-> "recordStackTrace", target |-> e, status |-> out.status,
                   skipTopFrame |-> skipTopFrame,
                   managedTopNoCodeBlock |->
                       /\ codeBlock = NullCB
                       /\ frames # <<>>
                       /\ getCalleeCodeBlock(frames[1]) # NullCB,
                   callees |-> IF out.funcNames # funcNames[e]
                               THEN [i \in 1..Len(frames) |-> frames[i].callee]
                               ELSE <<>>,
                   sizeAtPop |-> out.sizeAtPop]
        /\ UNCHANGED <<firstExposedFrameIndex, stackProp, prepareStackTrace,
                       formattingStackTrace, callStack>>

\* the live frames a capture of Spec finds: none, or one call of FnA from cbB
MainStacks == {<<>>, <<Frame(FnA, "cbB", Some(3))>>}

\* the sentinels Spec trims with: one in the trace, one without code block
MainSentinels == {FnA, NativeFn}

\* Spec captures at a known position and without allocation failures;
\* SpecCapture draws every input
Record(e) ==
    /\ Running
    /\ \E skipTopFrame \in BOOLEAN,
          frames \in MainStacks :
            RecordStep(e, skipTopFrame, "cbA", 3, frames, None, None)

\* a trimming that resumes the scan at the index the last call left, and so
\* never exposes a frame again
C27_ResumesScan(e, callables) ==
    /\ Running
    /\ IsSome(stacktrace[e])
    /\ \E callable \in callables :
        LET trace == Get(stacktrace[e])
            from == firstExposedFrameIndex[e]
            rest == SubSeq(trace, from + 1, Len(trace))
        IN  /\ firstExposedFrameIndex' =
                  [firstExposedFrameIndex EXCEPT
                      ![e] = from + popFramesUntilInclusive(rest, callable)]
            /\ ret' = [op |-> "popFramesUntilInclusive", target |-> e,
                       callable |-> callable, status |-> "RETURNED"]
    /\ UNCHANGED <<stacktrace, funcNames, domains, stackProp, prepareStackTrace,
                   formattingStackTrace, callStack>>

PopFrames(e, callables) ==
    /\ Running
    /\ IsSome(stacktrace[e])
    /\ \E callable \in callables :
        /\ firstExposedFrameIndex' =
              [firstExposedFrameIndex EXCEPT
                  ![e] = popFramesUntilInclusive(Get(stacktrace[e]), callable)]
        /\ ret' = [op |-> "popFramesUntilInclusive", target |-> e,
                   callable |-> callable, status |-> "RETURNED"]
    /\ UNCHANGED <<stacktrace, funcNames, domains, stackProp, prepareStackTrace,
                   formattingStackTrace, callStack>>

\* managed code installs or removes Error.prepareStackTrace
SetHook ==
    /\ Running
    /\ prepareStackTrace' = ~prepareStackTrace
    /\ ret' = [op |-> "setHook", status |-> "RETURNED"]
    /\ UNCHANGED <<errorVars, stackProp, formattingStackTrace, callStack>>

(***************************************************************************)
(* The `stack` property: errorStackSetter and plain writes.                *)
(***************************************************************************)
\* `stack` as a regular property defined with getNewNonEnumerableFlags()
StoredProp(v) == [kind |-> "data", value |-> v, enumerable |-> FALSE]

\* JSObject::defineOwnProperty(target, stack, dpf, v)
defineOwnProperty(t, v) == [stackProp EXCEPT ![t] = StoredProp(v)]

\* whether the call fails: it defines the property, or raises an exception
\* and defines nothing
DefineFails == BOOLEAN

SetResult(t, status, v) ==
    [op |-> "set", target |-> t, status |-> status, value |-> v]

\* a setter that returns without redefining the property
C6_SetterStoresNothing(t, w, defineFails) ==
    /\ stackProp' = stackProp
    /\ ret' = SetResult(t, "RETURNED", w)

\* errorStackSetter: reached while the property is still the accessor
errorStackSetter(t, w, defineFails) ==
    IF defineFails
    THEN /\ stackProp' = stackProp
         /\ ret' = SetResult(t, "EXCEPTION", w)
    ELSE /\ stackProp' = defineOwnProperty(t, w)
         /\ ret' = SetResult(t, "RETURNED", w)

\* a setter that releases the trace of the error the receiver leads to
C28_DiscardsTrace(t) ==
    /\ Running
    /\ \E w \in WrittenValues :
        \/ /\ stackProp[t].kind = "accessor"
           /\ \E defineFails \in DefineFails : errorStackSetter(t, w, defineFails)
        \/ /\ stackProp[t].kind = "data"
           /\ stackProp' = [stackProp EXCEPT ![t].value = w]
           /\ ret' = SetResult(t, "RETURNED", w)
    /\ stacktrace' = [e \in Errors |->
                         IF getErrorFromStackTarget(t) = Some(e) THEN None
                         ELSE stacktrace[e]]
    /\ UNCHANGED <<funcNames, domains, firstExposedFrameIndex,
                   prepareStackTrace, formattingStackTrace, callStack>>

Write(t) ==
    /\ Running
    /\ \E w \in WrittenValues :
        \/ /\ stackProp[t].kind = "accessor"
           /\ \E defineFails \in DefineFails : errorStackSetter(t, w, defineFails)
        \/ /\ stackProp[t].kind = "data"
           /\ stackProp' = [stackProp EXCEPT ![t].value = w]
           /\ ret' = SetResult(t, "RETURNED", w)
    /\ UNCHANGED <<errorVars, prepareStackTrace, formattingStackTrace, callStack>>

(***************************************************************************)
(* The `stack` property: reads and errorStackGetter.                       *)
(***************************************************************************)
GetResult(t, status, v) ==
    [op |-> "get", target |-> t, status |-> status, value |-> v]

\* errorStackGetter returns ExecutionStatus::EXCEPTION; cause is the call
\* that raised it
GetThrows(t, cause) ==
    [op |-> "get", target |-> t, status |-> "EXCEPTION", cause |-> cause]

\* a read of a property that is a plain stored value runs no getter
ReadStored(t) ==
    /\ Running
    /\ stackProp[t].kind = "data"
    /\ ret' = [op |-> "read", target |-> t, status |-> "RETURNED",
               value |-> stackProp[t].value]
    /\ UNCHANGED <<errorVars, stackProp, prepareStackTrace, formattingStackTrace,
                   callStack>>

\* a getter that calls the hook whenever one is installed
C7_IgnoresFlag == prepareStackTrace

\* `prepareStackTrace && !runtime.formattingStackTrace()`
ShouldCallHook == prepareStackTrace /\ ~formattingStackTrace

\* the getter returns without calling into managed code
GetterReturns(t, status, v) ==
    /\ ret' = GetResult(t, status, v)
    /\ UNCHANGED <<errorVars, stackProp, prepareStackTrace, formattingStackTrace,
                   callStack>>

\* no error behind the target: undefined
GetterNoError(t) ==
    /\ ~IsSome(getErrorFromStackTarget(t))
    /\ GetterReturns(t, "RETURNED", UndefinedValue)

\* a getter that stores the empty string it returns
C5_NoTraceWritesBack(t) ==
    /\ IsSome(getErrorFromStackTarget(t))
    /\ ~IsSome(stacktrace[Get(getErrorFromStackTarget(t))])
    /\ stackProp' = defineOwnProperty(t, EmptyString)
    /\ ret' = GetResult(t, "RETURNED", EmptyString)
    /\ UNCHANGED <<errorVars, prepareStackTrace, formattingStackTrace, callStack>>

\* `if (!errorHandle->stacktrace_) return emptyString;`
GetterNoTrace(t) ==
    /\ IsSome(getErrorFromStackTarget(t))
    /\ ~IsSome(stacktrace[Get(getErrorFromStackTarget(t))])
    /\ GetterReturns(t, "RETURNED", EmptyString)

\* a guard that is skipped when the branch is left by an exception
C8_LeaksOnThrow(hookThrew) == hookThrew

\* the flag once the hook branch is left (the scope-exit guard)
recursionGuard(hookThrew) == FALSE

\* the hook branch up to the call of the hook
GetterCallsHook(t, e, siteFail) ==
    LET callSitesRes == constructCallSitesArray(e, siteFail)
    IN  IF ~IsSome(callSitesRes)
        THEN /\ formattingStackTrace' = recursionGuard(TRUE)
             /\ callStack' = callStack
             /\ ret' = GetThrows(t, "constructCallSitesArray")
        ELSE /\ formattingStackTrace' = TRUE
             /\ callStack' = Append(callStack,
                    [kind |-> "hook", target |-> t, error |-> e,
                     callSites |-> Get(callSitesRes)])
             /\ ret' = [op |-> "call", target |-> t, status |-> "RETURNED",
                        callee |-> "prepareStackTrace"]

\* the default branch up to the call of %Error.prototype.toString%(target)
GetterCallsToString(t, e, overflowed) ==
    /\ formattingStackTrace' = formattingStackTrace
    /\ IF overflowed
       THEN /\ callStack' = callStack
            /\ ret' = GetThrows(t, "constructStackTraceString")
       ELSE /\ callStack' = Append(callStack,
                   [kind |-> "toString", target |-> t, error |-> e])
            /\ ret' = [op |-> "call", target |-> t, status |-> "RETURNED",
                       callee |-> "toString"]

\* errorStackGetter on a target whose error has a trace, up to its first call
\* into managed code
GetterFormats(t) ==
    /\ IsSome(getErrorFromStackTarget(t))
    /\ IsSome(stacktrace[Get(getErrorFromStackTarget(t))])
    /\ Len(callStack) < MaxDepth
    /\ LET e == Get(getErrorFromStackTarget(t))
       IN  \/ /\ ret' = GetThrows(t, "getNamed")
              /\ UNCHANGED <<formattingStackTrace, callStack>>
           \/ /\ ShouldCallHook
              /\ \E siteFail \in SiteFails : GetterCallsHook(t, e, siteFail)
           \/ /\ ~ShouldCallHook
              /\ \E overflowed \in BOOLEAN : GetterCallsToString(t, e, overflowed)
    /\ UNCHANGED <<errorVars, stackProp, prepareStackTrace>>

\* a read of a property that is still the accessor enters errorStackGetter
Getter(t) ==
    /\ Running
    /\ stackProp[t].kind = "accessor"
    /\ \/ GetterNoError(t)
       \/ GetterNoTrace(t)
       \/ GetterFormats(t)

\* a getter that returns the formatted value when the write-back failed
C19_ReturnsUnstored(t, v, defineFails) ==
    IF defineFails
    THEN /\ stackProp' = stackProp
         /\ ret' = GetResult(t, "RETURNED", v)
    ELSE /\ stackProp' = defineOwnProperty(t, v)
         /\ ret' = GetResult(t, "RETURNED", v)

\* a getter that memoizes on the error the receiver leads to
C29_StoresOnError(t, v, defineFails) ==
    IF defineFails
    THEN /\ stackProp' = stackProp
         /\ ret' = GetThrows(t, "defineOwnProperty")
    ELSE /\ stackProp' = defineOwnProperty(Get(getErrorFromStackTarget(t)), v)
         /\ ret' = GetResult(t, "RETURNED", v)

\* the end of errorStackGetter: redefine `stack` as a stored value, return it
WriteBack(t, v, defineFails) ==
    IF defineFails
    THEN /\ stackProp' = stackProp
         /\ ret' = GetThrows(t, "defineOwnProperty")
    ELSE /\ stackProp' = defineOwnProperty(t, v)
         /\ ret' = GetResult(t, "RETURNED", v)

\* a getter that stores undefined when the hook throws
C18_StoresOnThrow ==
    /\ Running
    /\ callStack # <<>>
    /\ callStack[Len(callStack)].kind = "hook"
    /\ LET top == callStack[Len(callStack)]
       IN  /\ callStack' = SubSeq(callStack, 1, Len(callStack) - 1)
           /\ \/ /\ formattingStackTrace' = recursionGuard(TRUE)
                 /\ stackProp' = defineOwnProperty(top.target, UndefinedValue)
                 /\ ret' = GetThrows(top.target, "prepareStackTrace")
              \/ /\ formattingStackTrace' = recursionGuard(FALSE)
                 /\ \E v \in HookResults, defineFails \in DefineFails :
                        WriteBack(top.target, v, defineFails)
    /\ UNCHANGED <<errorVars, prepareStackTrace>>

\* the hook returns a value or throws; the getter resumes
HookReturns ==
    /\ Running
    /\ callStack # <<>>
    /\ callStack[Len(callStack)].kind = "hook"
    /\ LET top == callStack[Len(callStack)]
       IN  /\ callStack' = SubSeq(callStack, 1, Len(callStack) - 1)
           /\ \/ /\ formattingStackTrace' = recursionGuard(TRUE)
                 /\ stackProp' = stackProp
                 /\ ret' = GetThrows(top.target, "prepareStackTrace")
              \/ /\ formattingStackTrace' = recursionGuard(FALSE)
                 /\ \E v \in HookResults, defineFails \in DefineFails :
                        WriteBack(top.target, v, defineFails)
    /\ UNCHANGED <<errorVars, prepareStackTrace>>

\* the string the default branch stores: the placeholder when
\* StringPrimitive::create fails
DefaultResult(str, createFails) == IF createFails THEN StacktraceTooLong ELSE str

\* what toString does in Spec: the two outcomes the getter tells apart
MainToStringOutcomes == {ToStringOk("Error: m"), ToStringThrowsUncatchable}

\* %Error.prototype.toString%(target) returns or throws; the getter resumes
ToStringReturns ==
    /\ Running
    /\ callStack # <<>>
    /\ callStack[Len(callStack)].kind = "toString"
    /\ LET top == callStack[Len(callStack)]
       IN  /\ callStack' = SubSeq(callStack, 1, Len(callStack) - 1)
           /\ \E ts \in MainToStringOutcomes :
                LET str == constructStackTraceString(top.error, FALSE, ts)
                IN  IF ~IsSome(str)
                    THEN /\ stackProp' = stackProp
                         /\ ret' = GetThrows(top.target, "constructStackTraceString")
                    ELSE \E createFails \in BOOLEAN, defineFails \in DefineFails :
                            WriteBack(top.target,
                                      DefaultResult(Get(str), createFails),
                                      defineFails)
    /\ UNCHANGED <<errorVars, prepareStackTrace, formattingStackTrace>>

Next ==
    \/ \E e \in Errors : Record(e)
    \/ \E e \in Errors : PopFrames(e, MainSentinels)
    \/ SetHook
    \/ \E t \in MainTargets : Write(t)
    \/ \E t \in Errors : ReadStored(t)
    \/ \E t \in ReadTargets : Getter(t)
    \/ HookReturns
    \/ ToStringReturns

Spec == Init /\ [][Next]_vars

(***************************************************************************)
(* SpecCapture: recordStackTrace and popFramesUntilInclusive on error e1,  *)
(* over every stack of at most MaxFrames live frames, both values of       *)
(* skipTopFrame, a current code block or none, and an allocation failure   *)
(* at any point.                                                           *)
(***************************************************************************)
AllocFails(n) == {None} \cup {Some(j) : j \in 0..n}

CaptureRecord ==
    /\ Running
    /\ IF AlreadyRecorded("e1")
       THEN \E skipTopFrame \in BOOLEAN :
               RecordStep("e1", skipTopFrame, NullCB, 0, <<>>, None, None)
       ELSE \E skipTopFrame \in BOOLEAN, codeBlock \in CodeBlocks \cup {NullCB},
               frames \in StacksUpTo(Frames, MaxFrames),
               domFail \in AllocFails(MaxFrames + 1),
               nameFail \in AllocFails(MaxFrames) :
                 RecordStep("e1", skipTopFrame, codeBlock, 5, frames,
                            domFail, nameFail)

CapturePop == PopFrames("e1", Sentinels)

NextCapture == CaptureRecord \/ CapturePop

SpecCapture == Init /\ [][NextCapture]_vars

(***************************************************************************)
(* SpecFormat: the default string and the call-site projector applied to   *)
(* error e1 holding a trace of any length up to MaxTraceLen, trimmed by    *)
(* popFramesUntilInclusive with any sentinel.                              *)
(***************************************************************************)
\* A captured trace of n frames of the function cbA, each at its own
\* offset, in which frame p (from 0) is a call from cbB and frame p + 1 a
\* native frame.
LongTrace(n, p) ==
    [i \in 1..n |->
        IF i - 1 = p THEN StackTraceInfo("cbB", i - 1)
        ELSE IF i - 1 = p + 1 THEN NativeInfo
        ELSE StackTraceInfo("cbA", i - 1)]

\* the names captured with it: every other callee has none
LongNames(n) == [i \in 1..n |-> IF i % 2 = 1 THEN "f" ELSE Undefined]

InitFormat ==
    \E n \in 0..MaxTraceLen, p \in 0..MaxSentinelPos, named \in BOOLEAN :
        /\ stacktrace = [e \in Errors |->
                            IF e = "e1" THEN Some(LongTrace(n, p)) ELSE None]
        /\ funcNames = [e \in Errors |->
                            IF e = "e1" /\ named THEN Some(LongNames(n)) ELSE None]
        /\ domains = [e \in Errors |->
                            IF e = "e1"
                            THEN Some(addDomains(LongTrace(n, p), None).doms)
                            ELSE None]
        /\ firstExposedFrameIndex = [e \in Errors |-> 0]
        /\ stackProp = [t \in Targets |-> AccessorProp]
        /\ prepareStackTrace = FALSE
        /\ formattingStackTrace = FALSE
        /\ callStack = <<>>
        /\ ret = [op |-> "none", status |-> "RETURNED"]

FormatPop == PopFrames("e1", Sentinels)

\* JSError::constructStackTraceString_RJS(e1, e1), whose toString returns
FormatString ==
    /\ \E overflowed \in BOOLEAN :
        LET str == constructStackTraceString("e1", overflowed, ToStringOk("Error: m"))
        IN  ret' = IF IsSome(str)
                   THEN [op |-> "constructStackTraceString", target |-> "e1",
                         status |-> "RETURNED", value |-> Get(str)]
                   ELSE [op |-> "constructStackTraceString", target |-> "e1",
                         status |-> "EXCEPTION", value |-> UndefinedValue]
    /\ UNCHANGED <<errorVars, stackProp, prepareStackTrace, formattingStackTrace,
                   callStack>>

\* JSError::constructCallSitesArray(e), for e1 and for e2 that has no trace
ProjectCallSites ==
    /\ \E e \in Errors, siteFail \in SiteFails :
        LET sites == constructCallSitesArray(e, siteFail)
        IN  ret' = IF IsSome(sites)
                   THEN [op |-> "constructCallSitesArray", target |-> e,
                         siteFail |-> siteFail,
                         status |-> "RETURNED", value |-> Get(sites)]
                   ELSE [op |-> "constructCallSitesArray", target |-> e,
                         siteFail |-> siteFail,
                         status |-> "EXCEPTION", value |-> <<>>]
    /\ UNCHANGED <<errorVars, stackProp, prepareStackTrace, formattingStackTrace,
                   callStack>>

NextFormat == FormatPop \/ FormatString \/ ProjectCallSites

SpecFormat == InitFormat /\ [][NextFormat]_vars

(***************************************************************************)
(* SpecHeader: JSError::toString on every object of TargetObjects, and the *)
(* default string of error e1, holding a short trace, for a target that is *)
(* any of these objects.                                                   *)
(***************************************************************************)
InitHeader ==
    \E n \in 0..MaxHeaderTrace, named \in BOOLEAN :
        /\ stacktrace = [e \in Errors |->
                            IF e = "e1" THEN Some(LongTrace(n, 0)) ELSE None]
        /\ funcNames = [e \in Errors |->
                            IF e = "e1" /\ named THEN Some(LongNames(n)) ELSE None]
        /\ domains = [e \in Errors |->
                            IF e = "e1"
                            THEN Some(addDomains(LongTrace(n, 0), None).doms)
                            ELSE None]
        /\ firstExposedFrameIndex = [e \in Errors |-> 0]
        /\ stackProp = [t \in Targets |-> AccessorProp]
        /\ prepareStackTrace = FALSE
        /\ formattingStackTrace = FALSE
        /\ callStack = <<>>
        /\ ret = [op |-> "none", status |-> "RETURNED"]

\* JSError::toString(O)
HeaderToString ==
    /\ \E O \in TargetObjects, builderFails \in BOOLEAN :
        LET res == toString(O, builderFails)
        IN  ret' = IF res.kind = "returns"
                   THEN [op |-> "toString", object |-> O, status |-> "RETURNED",
                         value |-> res.str]
                   ELSE [op |-> "toString", object |-> O, status |-> "EXCEPTION",
                         thrown |-> res.thrown]
    /\ UNCHANGED <<errorVars, stackProp, prepareStackTrace, formattingStackTrace,
                   callStack>>

\* JSError::constructStackTraceString_RJS(e1, O)
HeaderFormat ==
    /\ \E O \in TargetObjects, overflowed \in BOOLEAN, builderFails \in BOOLEAN :
        LET str == constructStackTraceString("e1", overflowed,
                                             toStringOfTarget(O, builderFails))
        IN  ret' = IF IsSome(str)
                   THEN [op |-> "constructStackTraceString", target |-> "e1",
                         object |-> O, overflowed |-> overflowed,
                         builderFails |-> builderFails,
                         status |-> "RETURNED", value |-> Get(str)]
                   ELSE [op |-> "constructStackTraceString", target |-> "e1",
                         object |-> O, overflowed |-> overflowed,
                         builderFails |-> builderFails,
                         status |-> "EXCEPTION", value |-> UndefinedValue]
    /\ UNCHANGED <<errorVars, stackProp, prepareStackTrace, formattingStackTrace,
                   callStack>>

NextHeader == HeaderToString \/ HeaderFormat

SpecHeader == InitHeader /\ [][NextHeader]_vars

(***************************************************************************)
(* SpecThrow: one throw of error e1.  The live stack, skipTopFrame and the *)
(* current code block are fixed when the behaviour starts and kept in ret; *)
(* the throw path calls recordStackTrace on them, with an allocation       *)
(* failure at any point, and may call it again.                            *)
(***************************************************************************)
\* a callee whose displayName is an accessor and whose name is a string
FnGetterDisplayName == JSFunction("cbB", AccessorProp, DataProp("k"))

ThrowCallees == Callees \cup {FnGetterDisplayName}

ThrowFrames == {Frame(c, s[1], s[2]) : c \in ThrowCallees, s \in SavedLocations}

InitThrow ==
    /\ stacktrace = [e \in Errors |-> None]
    /\ funcNames = [e \in Errors |-> None]
    /\ domains = [e \in Errors |-> None]
    /\ firstExposedFrameIndex = [e \in Errors |-> 0]
    /\ stackProp = [t \in Targets |-> AccessorProp]
    /\ prepareStackTrace = FALSE
    /\ formattingStackTrace = FALSE
    /\ callStack = <<>>
    /\ \E skipTopFrame \in BOOLEAN, codeBlock \in CodeBlocks \cup {NullCB},
          frames \in StacksUpTo(ThrowFrames, MaxThrowFrames) :
            ret = [op |-> "throw", target |-> "e1", status |-> "RETURNED",
                   skipTopFrame |-> skipTopFrame, codeBlock |-> codeBlock,
                   frames |-> frames]

\* the allocation of the domains list that fails in a call that gets to it:
\* Some(0) ArrayStorageSmall::create, Some(j) the j-th push_back
DomainFailure(domFail, entries) ==
    IF domFail = Some(0) THEN domFail
    ELSE IF IsSome(domFail) /\ Get(domFail) <= Len(DomainPushes(entries))
         THEN domFail
         ELSE None

\* the allocation of the names that fails in a call that gets to it:
\* Some(0) PropStorage::create, Some(j) the j-th PropStorage::resize
NameFailure(nameFail, frames, skipTopFrame) ==
    LET walked == IF skipTopFrame /\ frames # <<>>
                  THEN Len(frames) - 1 ELSE Len(frames)
    IN  IF IsSome(nameFail) /\ Get(nameFail) <= walked THEN nameFail ELSE None

\* the first call meets an allocation failure at any point, a repeated call
\* none
ThrowAllocFails(n) == IF ret.op = "throw" THEN AllocFails(n) ELSE {None}

\* recordStackTrace(e1, skipTopFrame, codeBlock, ip) on the live stack.
\* ret.first: the error had no trace; ret.ambiguous: the call returned at
\* line 420; ret.domFailure, ret.nameFailure: the allocation that failed.
ThrowRecord ==
    /\ Running
    /\ \E domFail \in ThrowAllocFails(MaxThrowFrames + 1),
          nameFail \in ThrowAllocFails(MaxThrowFrames) :
        LET skipTopFrame == ret.skipTopFrame
            codeBlock == ret.codeBlock
            frames == ret.frames
            first == ~AlreadyRecorded("e1")
            ambiguous == AmbiguousTopFrame(skipTopFrame, codeBlock, frames)
            entries == CapturedEntries(skipTopFrame, codeBlock, 5, frames)
            domFailure == IF first /\ ~ambiguous
                          THEN DomainFailure(domFail, entries) ELSE None
            nameFailure == IF first /\ ~ambiguous /\ domFailure = None
                           THEN NameFailure(nameFail, frames, skipTopFrame)
                           ELSE None
        IN  \E out \in recordStackTrace("e1", skipTopFrame, codeBlock, 5, frames,
                                        domFail, nameFail) :
                /\ stacktrace' = [stacktrace EXCEPT !["e1"] = out.stacktrace]
                /\ funcNames' = [funcNames EXCEPT !["e1"] = out.funcNames]
                /\ domains' = [domains EXCEPT !["e1"] = out.domains]
                /\ ret' = [op |-> "recordStackTrace", target |-> "e1",
                           status |-> out.status,
                           skipTopFrame |-> skipTopFrame, codeBlock |-> codeBlock,
                           frames |-> frames, first |-> first,
                           ambiguous |-> first /\ ambiguous,
                           domFailure |-> domFailure,
                           nameFailure |-> nameFailure,
                           sizeAtPop |-> out.sizeAtPop]
    /\ UNCHANGED <<firstExposedFrameIndex, stackProp, prepareStackTrace,
                   formattingStackTrace, callStack>>

NextThrow == ThrowRecord

SpecThrow == InitThrow /\ [][NextThrow]_vars

(***************************************************************************)
(* SpecReceiver: the `stack` property read and written on error e1 and on  *)
(* the receivers o1, which leads to e1, and o2, which leads to no error,   *)
(* with captures and trimmings of e1 and a hook installed or not.          *)
(***************************************************************************)
Receivers == {"e1", "o1", "o2"}

ReceiverRecord == Record("e1")

ReceiverPop == PopFrames("e1", MainSentinels)

ReceiverWrite == \E t \in Receivers : Write(t)

ReceiverRead == \E t \in Receivers : ReadStored(t)

ReceiverGet == \E t \in Receivers : Getter(t)

NextReceiver ==
    \/ ReceiverRecord
    \/ ReceiverPop
    \/ SetHook
    \/ ReceiverWrite
    \/ ReceiverRead
    \/ ReceiverGet
    \/ HookReturns
    \/ ToStringReturns

SpecReceiver == Init /\ [][NextReceiver]_vars

(***************************************************************************)
(* Properties.                                                             *)
(***************************************************************************)
\* the step just taken was the operation op on target t
Did(op, t) == ret.op = op /\ ret.target = t

\* C1: capture is one-shot.  A recordStackTrace step on an error whose trace
\* is set returns success and leaves the trace, the function names, the
\* domains and firstExposedFrameIndex as they were; and no step of any kind
\* (capture, read, write, trimming) changes a trace that is set.
C1_CaptureIsOneShot ==
    [][\A e \in Errors :
          IsSome(stacktrace[e]) =>
              /\ stacktrace'[e] = stacktrace[e]
              /\ (ret'.op = "recordStackTrace" /\ ret'.target = e) =>
                    /\ ret'.status = "RETURNED"
                    /\ funcNames'[e] = funcNames[e]
                    /\ domains'[e] = domains[e]
                    /\ firstExposedFrameIndex'[e] = firstExposedFrameIndex[e]]_vars

\* a second recordStackTrace has returned on an error that kept its one-frame
\* trace, after trimming and after its stack was formatted
C1_Witness ==
    /\ ret.op = "recordStackTrace"
    /\ ret.status = "RETURNED"
    /\ ret.sizeAtPop = None
    /\ IsSome(stacktrace[ret.target])
    /\ Len(Get(stacktrace[ret.target])) = 1
    /\ firstExposedFrameIndex[ret.target] = 1
    /\ stackProp[ret.target].kind = "data"

\* C2: whenever an error has a trace, its function names are absent, empty,
\* or as many as the trace has entries, whichever skipTopFrame and however
\* many live frames the capture found.
C2_NamesMatchTrace ==
    \A e \in Errors :
        IsSome(stacktrace[e]) =>
            \/ funcNames[e] = None
            \/ Len(Get(funcNames[e])) = 0
            \/ Len(Get(funcNames[e])) = Len(Get(stacktrace[e]))

\* a capture that skipped the top frame of two live frames: one entry, one name
C2_Witness ==
    /\ Did("recordStackTrace", "e1")
    /\ ret.skipTopFrame
    /\ ret.sizeAtPop = Some(2)
    /\ IsSome(funcNames["e1"])
    /\ Len(Get(funcNames["e1"])) = 1
    /\ Len(Get(stacktrace["e1"])) = 1

\* the trace of the error behind target t is set
HasTrace(t) ==
    /\ IsSome(getErrorFromStackTarget(t))
    /\ IsSome(stacktrace[Get(getErrorFromStackTarget(t))])

\* r is the result of a read of t that returned a value
ReadReturned(r, t) ==
    r.op \in {"get", "read"} /\ r.target = t /\ r.status = "RETURNED"

\* r is the result of an errorStackGetter on t that stored the value it returned
GetterStored(r, t) ==
    /\ r.op = "get" /\ r.target = t /\ r.status = "RETURNED"
    /\ r.value.kind \in {"default", "stacktraceTooLong", "hookResult"}

\* hook invocations in progress
HookFrames == Cardinality({i \in 1..Len(callStack) : callStack[i].kind = "hook"})

\* errorStackGetter activations on t waiting for managed code to return
Activations(t) == {i \in 1..Len(callStack) : callStack[i].target = t}

\* C3: memoization, as the claim states it.  When errorStackGetter has
\* formatted the stack of a target with a captured trace and returned it,
\* and the next step is a read of the same target returning, that read
\* returns the value the first returned.
C3_ReadsAgree ==
    [][\A t \in Targets :
          (HasTrace(t) /\ GetterStored(ret, t) /\ ReadReturned(ret', t))
              => ret'.value = ret.value]_vars

\* C4: the stack property becomes a stored value once, as the claim states
\* it.  When errorStackGetter has stored a value for a target and the next
\* step is an errorStackGetter storing for the same target, the property
\* keeps the value it had.
C4_StoredOnce ==
    [][\A t \in Targets :
          (GetterStored(ret, t) /\ GetterStored(ret', t))
              => stackProp'[t] = stackProp[t]]_vars

\* C5: a read of the stack of an error without a trace returns the empty
\* string, and neither undefined nor an exception, and stores nothing: the
\* property is the accessor when the read has returned.
C5_NoTraceReadKeepsAccessor ==
    \A t \in Targets :
        (ret.op = "get" /\ ret.target = t
            /\ IsSome(getErrorFromStackTarget(t)) /\ ~HasTrace(t))
            => /\ ret.status = "RETURNED"
               /\ ret.value = EmptyString
               /\ stackProp[t] = AccessorProp

\* errorStackGetter returned the empty string for e1, which has no trace,
\* while a hook is installed
C5_Witness ==
    /\ Did("get", "e1")
    /\ stacktrace["e1"] = None
    /\ ret.value = EmptyString
    /\ stackProp["e1"] = AccessorProp
    /\ prepareStackTrace

\* C5 as the claim states it: the read of an error without a trace leaves
\* the empty string stored in the property.
C5_NoTraceReadStores ==
    \A t \in Targets :
        (ret.op = "get" /\ ret.target = t
            /\ IsSome(getErrorFromStackTarget(t)) /\ ~HasTrace(t))
            => /\ ret.status = "RETURNED"
               /\ ret.value = EmptyString
               /\ stackProp[t] = StoredProp(EmptyString)

\* C6: a write of w that returns while the property is the accessor and no
\* errorStackGetter is running on the target stores w as a non-enumerable
\* value; from then on, with or without a trace, only a write changes the
\* property, no errorStackGetter starts on the target, and a read of it
\* returns the stored value and runs neither the hook nor toString.
C6_WriteBeforeRead ==
    [][\A t \in Targets :
          /\ (stackProp[t] = AccessorProp /\ Activations(t) = {}
                /\ ret'.op = "set" /\ ret'.target = t /\ ret'.status = "RETURNED")
                => stackProp'[t] = StoredProp(ret'.value)
          /\ (stackProp[t].kind = "data" /\ stackProp[t].value.kind = "written"
                /\ Activations(t) = {})
                => /\ stackProp'[t] = stackProp[t] \/ ret'.op = "set"
                   /\ {i \in 1..Len(callStack') : callStack'[i].target = t} = {}
                   /\ (ret'.op \in {"get", "read", "call"} /\ ret'.target = t)
                        => /\ ret' = [op |-> "read", target |-> t,
                                      status |-> "RETURNED",
                                      value |-> stackProp[t].value]
                           /\ callStack' = callStack
                           /\ formattingStackTrace' = formattingStackTrace]_vars

\* a read of e1 returned the written value while e1 has a trace and a hook
\* is installed and not running
C6_Witness ==
    /\ Did("read", "e1")
    /\ ret.value \in WrittenValues
    /\ stackProp["e1"] = StoredProp(ret.value)
    /\ IsSome(stacktrace["e1"])
    /\ Len(Get(stacktrace["e1"])) = 1
    /\ prepareStackTrace
    /\ callStack = <<>>

\* C7: at most one hook invocation is in progress, and a read that returns
\* while a hook is running did not get a hook's result: for an error with a
\* trace it got the string of the default branch.
C7_OneHookAtATime ==
    /\ HookFrames <= 1
    /\ \A t \in Targets :
          (HookFrames = 1 /\ ret.op = "get" /\ ret.target = t
              /\ ret.status = "RETURNED" /\ HasTrace(t))
              => ret.value.kind \in {"default", "stacktraceTooLong"}

\* while the hook runs for e1, a read of e2 returned the default string
C7_Witness ==
    /\ HookFrames = 1
    /\ callStack[1].kind = "hook"
    /\ callStack[1].target = "e1"
    /\ Did("get", "e2")
    /\ ret.status = "RETURNED"
    /\ ret.value.kind = "default"
    /\ prepareStackTrace

\* C8: the re-entrancy flag is set exactly while a hook invocation started
\* by errorStackGetter is in progress; when no read is in progress, however
\* the last one ended, it is clear.
C8_FlagReleased ==
    /\ formattingStackTrace = (HookFrames >= 1)
    /\ callStack = <<>> => ~formattingStackTrace

\* a top-level read ended with the exception its hook threw
C8_Witness ==
    /\ ret.op = "get"
    /\ ret.status = "EXCEPTION"
    /\ ret.cause = "prepareStackTrace"
    /\ callStack = <<>>
    /\ ~formattingStackTrace

\* "at" lines and skip markers of a default string
AtCount(str) == Cardinality({j \in 1..Len(str.lines) : str.lines[j].kind = "at"})
SkipCount(str) == Cardinality({j \in 1..Len(str.lines) : str.lines[j].kind = "skipping"})

\* the "at" line of exposed frame i (from 0) of e1
ExposedLine(i) ==
    AtLine(Get(stacktrace["e1"]), funcNames["e1"], firstExposedFrameIndex["e1"] + i)

\* C9: with n exposed frames, the default string has, for n <= 100, the n
\* "at" lines of the exposed frames in order and no skip marker; for
\* n > 100, the "at" lines of the first 50 exposed frames, one marker
\* "skipping n - 100 frames", and the "at" lines of the last 50.
C9_Truncation ==
    (ret.op = "constructStackTraceString" /\ ret.status = "RETURNED") =>
        LET n == ExposedFrames("e1")
            lines == ret.value.lines
        IN  IF n <= 100
            THEN /\ Len(lines) = n
                 /\ \A j \in 1..n : lines[j] = ExposedLine(j - 1)
            ELSE /\ Len(lines) = 101
                 /\ \A j \in 1..50 : lines[j] = ExposedLine(j - 1)
                 /\ lines[51] = SkipLine(n - 100)
                 /\ \A j \in 52..101 : lines[j] = ExposedLine(n - 50 + (j - 52))
                 /\ AtCount(ret.value) = 100
                 /\ SkipCount(ret.value) = 1

\* 151 exposed frames: 100 "at" lines and one marker for 51 frames
C9_Witness ==
    /\ ret.op = "constructStackTraceString"
    /\ ret.status = "RETURNED"
    /\ ExposedFrames("e1") = 151
    /\ AtCount(ret.value) = 100
    /\ SkipCount(ret.value) = 1
    /\ ret.value.lines[51] = SkipLine(51)

\* C10: for a trace trimmed to firstExposedFrameIndex k, the projector
\* yields trace.length - k call sites, those of the exposed frames in
\* order, and the default string has as many "at" lines when that is at
\* most 100, and 100 when it is more.
C10_ProjectorAndString ==
    LET n == ExposedFrames("e1")
    IN  /\ (Did("constructCallSitesArray", "e1") /\ ret.status = "RETURNED")
            => /\ Len(ret.value) = n
               /\ \A j \in 1..n :
                     ret.value[j] = CallSite("e1", firstExposedFrameIndex["e1"] + j - 1)
        /\ (ret.op = "constructStackTraceString" /\ ret.status = "RETURNED")
            => AtCount(ret.value) = Min(n, 100)

\* the projector returned the 149 call sites of a trace of 152 trimmed to 3
C10_Witness ==
    /\ Did("constructCallSitesArray", "e1")
    /\ ret.status = "RETURNED"
    /\ Len(Get(stacktrace["e1"])) = 152
    /\ firstExposedFrameIndex["e1"] = 3
    /\ Len(ret.value) = 149

\* C10 as the claim states it: the default string has trace.length - k
\* "at" lines.
C10_SameCount ==
    (ret.op = "constructStackTraceString" /\ ret.status = "RETURNED")
        => AtCount(ret.value) = ExposedFrames("e1")

\* the string form of a thrown primitive
PrimitiveStringForm == "oops"

\* the header "<while converting error to string: s>"
WhileConverting(s) == [kind |-> "whileConverting", text |-> s]

\* C11, as the claim states it: when toString of the target throws a
\* catchable value that has a string form, a primitive or an object whose
\* own toString returns, the default string is produced and starts with
\* "<while converting error to string: ", the string form and ">"; when it
\* throws an uncatchable error, no string is produced.
C11_ThrownValueInHeader ==
    (ret.op = "constructStackTraceString" /\ ~ret.overflowed) =>
        LET res == toString(ret.object, ret.builderFails)
        IN  res.kind = "throws" =>
                IF res.thrown.kind = "uncatchable"
                THEN ret.status = "EXCEPTION"
                ELSE IF res.thrown.kind = "primitive"
                THEN /\ ret.status = "RETURNED"
                     /\ ret.value.header = WhileConverting(PrimitiveStringForm)
                ELSE LET inner == toString(res.thrown.obj, FALSE)
                     IN  inner.kind = "returns" =>
                            /\ ret.status = "RETURNED"
                            /\ ret.value.header = WhileConverting(inner.str)

\* the result toString must give for a name and a message that were read
ExpectedToString(name, message) ==
    LET n == IF name = Undefined THEN "Error" ELSE name
        m == IF message = Undefined THEN "" ELSE message
    IN  CASE n = "" /\ m = "" -> ""
          [] n = "" /\ m = "m" -> "m"
          [] n = "E" /\ m = "" -> "E"
          [] n = "E" /\ m = "m" -> "E: m"
          [] n = "Error" /\ m = "" -> "Error"
          [] n = "Error" /\ m = "m" -> "Error: m"

\* C12: when JSError::toString returns, it returns the message for an empty
\* name, the name for an empty message, and name ": " message otherwise,
\* with "Error" for an undefined name and "" for an undefined message.
C12_ToStringJoins ==
    (ret.op = "toString" /\ ret.status = "RETURNED") =>
        /\ ret.object.name.kind = "returns"
        /\ ret.object.message.kind = "returns"
        /\ ret.value = ExpectedToString(ret.object.name.value,
                                        ret.object.message.value)

\* toString returned "m" for the name "" and the message "m"
C12_Witness ==
    /\ ret.op = "toString"
    /\ ret.status = "RETURNED"
    /\ ret.object = ErrorLike(PropReturns(""), PropReturns("m"))
    /\ ret.value = "m"

\* the exposed frame (from 0) that line j of a default string of n exposed
\* frames shows
FrameOfLine(j, n) == IF n <= 100 \/ j <= 50 THEN j - 1 ELSE n - 50 + (j - 52)

\* C13: in the default string, the line of an exposed frame whose trace
\* entry has no code block is the frame's captured name, or "anonymous"
\* when it has none, followed by "(native)": no file, line or column,
\* whatever the other frames are.
C13_NativeFrames ==
    (ret.op = "constructStackTraceString" /\ ret.status = "RETURNED") =>
        LET n == ExposedFrames("e1")
            trace == Get(stacktrace["e1"])
            names == funcNames["e1"]
            lines == ret.value.lines
        IN  \A j \in 1..Len(lines) :
                LET abs == firstExposedFrameIndex["e1"] + FrameOfLine(j, n)
                IN  (lines[j].kind = "at" /\ trace[abs + 1].codeBlock = NullCB) =>
                        /\ lines[j].loc = [kind |-> "native"]
                        /\ lines[j].name =
                              IF IsSome(names) /\ Get(names)[abs + 1] \notin {Undefined, ""}
                              THEN Get(names)[abs + 1]
                              ELSE "anonymous"

\* a string of more than 100 frames showing a named native frame between
\* frames with and without debug information
C13_Witness ==
    /\ ret.op = "constructStackTraceString"
    /\ ret.status = "RETURNED"
    /\ ExposedFrames("e1") > 100
    /\ firstExposedFrameIndex["e1"] = 0
    /\ ret.value.lines[2].loc.kind = "address"
    /\ ret.value.lines[3] = [kind |-> "at", name |-> "f", loc |-> [kind |-> "native"]]
    /\ ret.value.lines[4].loc.kind = "source"

\* C14: for an error with a trace, 0 <= firstExposedFrameIndex <=
\* trace.length, whatever sentinels it was trimmed with, so that the count
\* of exposed frames is never negative.
C14_IndexInRange ==
    \A e \in Errors :
        IsSome(stacktrace[e]) =>
            /\ 0 <= firstExposedFrameIndex[e]
            /\ firstExposedFrameIndex[e] <= Len(Get(stacktrace[e]))
            /\ ExposedFrames(e) >= 0

\* a trimming with a sentinel that is not in the trace hid both entries
C14_Witness ==
    /\ Did("popFramesUntilInclusive", "e1")
    /\ Len(Get(stacktrace["e1"])) = 2
    /\ firstExposedFrameIndex["e1"] = 2
    /\ \A i \in 1..2 : Get(stacktrace["e1"])[i].codeBlock # "cbB"
    /\ ret.callable = FnB

\* the code block at the end of the chain of bound-function targets of each
\* sentinel; NullCB when the chain ends in a native function
ExpectedLeaf(callable) ==
    CASE callable = FnA -> "cbA"
      [] callable = FnB -> "cbB"
      [] callable = NativeFn -> NullCB
      [] callable = BoundFunction(FnB) -> "cbB"
      [] callable = BoundFunction(BoundFunction(FnA)) -> "cbA"
      [] callable = BoundFunction(NativeFn) -> NullCB

\* C15: when popFramesUntilInclusive has returned, firstExposedFrameIndex
\* is one past the first trace entry (innermost first) whose code block is
\* the leaf code block of the sentinel, and trace.length when the sentinel
\* leads to no managed function or no entry has that code block.
C15_PopsThroughSentinel ==
    \A e \in Errors :
        Did("popFramesUntilInclusive", e) =>
            LET trace == Get(stacktrace[e])
                leaf == ExpectedLeaf(ret.callable)
                k == firstExposedFrameIndex[e]
            IN  IF leaf # NullCB /\ \E i \in 1..Len(trace) : trace[i].codeBlock = leaf
                THEN /\ k \in 1..Len(trace)
                     /\ trace[k].codeBlock = leaf
                     /\ \A i \in 1..(k - 1) : trace[i].codeBlock # leaf
                ELSE k = Len(trace)

\* a doubly bound FnA trimmed a trace through its second entry, the first
\* entry of cbA
C15_Witness ==
    /\ Did("popFramesUntilInclusive", "e1")
    /\ ret.callable = BoundFunction(BoundFunction(FnA))
    /\ Len(Get(stacktrace["e1"])) = 2
    /\ Get(stacktrace["e1"])[1].codeBlock = "cbB"
    /\ Get(stacktrace["e1"])[2].codeBlock = "cbA"
    /\ firstExposedFrameIndex["e1"] = 2

\* the step was a recordStackTrace on e, which had no trace, called without
\* a current code block while the top live frame runs managed code
NoCodeBlockOnManagedTop(e) ==
    /\ ret'.op = "recordStackTrace"
    /\ ret'.target = e
    /\ stacktrace[e] = None
    /\ ret'.managedTopNoCodeBlock

\* the step left the error without trace and its names and domains as they were
CaptureWasNoOp(e) ==
    /\ ret'.status = "RETURNED"
    /\ stacktrace'[e] = None
    /\ funcNames'[e] = funcNames[e]
    /\ domains'[e] = domains[e]

\* C16: recordStackTrace without a current code block on a managed top
\* frame is a successful no-op when skipTopFrame is false; when
\* skipTopFrame is true it captures, and a successful return leaves the
\* error with a trace.
C16_AmbiguousCaptureIsNoOp ==
    [][\A e \in Errors :
          NoCodeBlockOnManagedTop(e) =>
              IF ret'.skipTopFrame
              THEN ret'.status = "RETURNED" => IsSome(stacktrace'[e])
              ELSE CaptureWasNoOp(e)]_vars

\* a capture without code block and without skipTopFrame on a managed top
\* frame returned and e1 has no trace
C16_Witness ==
    /\ Did("recordStackTrace", "e1")
    /\ ret.status = "RETURNED"
    /\ ~ret.skipTopFrame
    /\ ret.managedTopNoCodeBlock
    /\ stacktrace["e1"] = None
    /\ funcNames["e1"] = None
    /\ domains["e1"] = None

\* C16 as the claim states it: the no-op for either value of skipTopFrame.
C16_NoOpForEitherSkip ==
    [][\A e \in Errors : NoCodeBlockOnManagedTop(e) => CaptureWasNoOp(e)]_vars

\* the creation of the array or of one of its max call sites failed
SiteCreationFailed(siteFail, max) ==
    \/ siteFail = Some(0)
    \/ IsSome(siteFail) /\ Get(siteFail) <= max

\* C17: constructCallSitesArray returns trace.length - firstExposedFrameIndex
\* call sites, however many, the j-th (from 0) of the owning error and of
\* index firstExposedFrameIndex + j; the empty sequence for an error
\* without trace; and no array exactly when a creation failed.
C17_CallSitesArray ==
    \A e \in Errors :
        Did("constructCallSitesArray", e) =>
            LET max == IF IsSome(stacktrace[e])
                       THEN Len(Get(stacktrace[e])) - firstExposedFrameIndex[e]
                       ELSE 0
            IN  /\ ret.status \in {"RETURNED", "EXCEPTION"}
                /\ ret.status = "EXCEPTION" <=> SiteCreationFailed(ret.siteFail, max)
                /\ ret.status = "EXCEPTION" => ret.value = <<>>
                /\ ret.status = "RETURNED" =>
                      /\ Len(ret.value) = max
                      /\ \A j \in 0..(max - 1) :
                            /\ ret.value[j + 1].error = e
                            /\ ret.value[j + 1].index = firstExposedFrameIndex[e] + j

\* the projector returned all the 152 call sites of an untrimmed trace
C17_Witness ==
    /\ Did("constructCallSitesArray", "e1")
    /\ ret.status = "RETURNED"
    /\ firstExposedFrameIndex["e1"] = 0
    /\ Len(ret.value) = 152
    /\ ret.value[152] = CallSite("e1", 151)

\* r is the result of an errorStackGetter on t that failed with the
\* exception the hook threw
HookThrew(r, t) ==
    /\ r.op = "get" /\ r.target = t /\ r.status = "EXCEPTION"
    /\ r.cause = "prepareStackTrace"

\* r is the result of the steps of errorStackGetter on t up to the call of
\* the hook: the call, or a failure on the way to it
TakesHookBranch(r, t) ==
    \/ r = [op |-> "call", target |-> t, status |-> "RETURNED",
            callee |-> "prepareStackTrace"]
    \/ r = GetThrows(t, "getNamed")
    \/ r = GetThrows(t, "constructCallSitesArray")

WriteBackFailed(r, t) == r = GetThrows(t, "defineOwnProperty")

NameIsAccessor(callee) ==
    /\ callee.kind \in {"JSFunction", "NativeFunction", "BoundFunction"}
    /\ \/ callee.displayName.kind = "accessor"
       \/ callee.displayName.kind = "absent" /\ callee.name.kind = "accessor"

\* C20: a recordStackTrace step only captures.  It starts no hook and no
\* toString call, leaves the re-entrancy flag, the installed hook and the
\* stack property of every target as they were, the property of the error
\* still being the accessor, and the name it records for a callee whose
\* name is an accessor is undefined, not what the getter would return.
C20_CaptureOnly ==
    [][\A e \in Errors :
          (ret'.op = "recordStackTrace" /\ ret'.target = e) =>
              /\ callStack' = callStack
              /\ formattingStackTrace' = formattingStackTrace
              /\ prepareStackTrace' = prepareStackTrace
              /\ stackProp' = stackProp
              /\ stackProp'[e].kind = "accessor"
              /\ (stacktrace[e] = None /\ IsSome(funcNames'[e])) =>
                    LET names == Get(funcNames'[e])
                        off == IF ret'.skipTopFrame THEN 1 ELSE 0
                    IN  \A k \in 1..Len(names) :
                            (k + off <= Len(ret'.callees)
                                /\ NameIsAccessor(ret'.callees[k + off]))
                              => names[k] = Undefined]_vars

\* a capture walked a native function whose name is an accessor, recorded
\* undefined for it and left e1 Unformatted
C20_Witness ==
    /\ Did("recordStackTrace", "e1")
    /\ ret.status = "RETURNED"
    /\ ~ret.skipTopFrame
    /\ Len(ret.callees) = 2
    /\ ret.callees[1] = NativeFn
    /\ IsSome(stacktrace["e1"])
    /\ IsSome(funcNames["e1"])
    /\ Len(Get(funcNames["e1"])) = 2
    /\ Get(funcNames["e1"])[1] = Undefined
    /\ stackProp["e1"].kind = "accessor"
    /\ callStack = <<>>

\* the last step was the first recordStackTrace on e1, it went past the
\* early returns and no allocation for the domains failed; with
\* skipTopFrame there is a top frame to skip
ThrowCaptured ==
    /\ Did("recordStackTrace", "e1")
    /\ ret.first
    /\ ~ret.ambiguous
    /\ ret.domFailure = None
    /\ ret.skipTopFrame => ret.frames # <<>>

\* C21: with N live frames a capture returns success with N entries
\* without skipTopFrame (entry 0 the current position, or native when no
\* code block is supplied; entry j > 0 the return location saved by frame
\* j - 1) and N - 1 entries with it (entry j the return location saved by
\* frame j); the entry of the outermost frame's saved location is dropped,
\* and name j, when the names are present, is the name resolved for the
\* frame the position of entry j lies in.
C21_EntriesAndNamesAligned ==
    ThrowCaptured =>
        LET frames == ret.frames
            N == Len(frames)
            off == IF ret.skipTopFrame THEN 1 ELSE 0
            trace == Get(stacktrace["e1"])
        IN  /\ ret.status = "RETURNED"
            /\ IsSome(stacktrace["e1"])
            /\ Len(trace) = N - off
            /\ (~ret.skipTopFrame /\ N > 0) =>
                  /\ trace[1] = IF ret.codeBlock # NullCB
                                THEN StackTraceInfo(ret.codeBlock, 5)
                                ELSE NativeInfo
                  /\ \A j \in 1..(N - 1) : trace[j + 1] = FrameEntry(frames, j)
            /\ ret.skipTopFrame =>
                  \A j \in 0..(N - 2) : trace[j + 1] = FrameEntry(frames, j + 1)
            /\ IsSome(funcNames["e1"]) =>
                  /\ Len(Get(funcNames["e1"])) = Len(trace)
                  /\ \A j \in 0..(Len(trace) - 1) :
                        Get(funcNames["e1"])[j + 1] =
                            ResolveFrameName(frames[j + 1 + off].callee)

\* a capture without skipTopFrame at a position in cbA, in FnB called from
\* FnA: two entries, the second the call position in cbA, named g and f
C21_Witness ==
    /\ ThrowCaptured
    /\ ~ret.skipTopFrame
    /\ ret.codeBlock = "cbA"
    /\ Len(ret.frames) = 2
    /\ ret.frames[1].callee = FnB
    /\ ret.frames[2].callee = FnA
    /\ ret.frames[1].savedCodeBlock = NullCB
    /\ stacktrace["e1"] = Some(<<StackTraceInfo("cbA", 5), StackTraceInfo("cbA", 3)>>)
    /\ funcNames["e1"] = Some(<<"g", "f">>)

\* the domains of the entries that have a code block, in order
EntryDomains(entries) ==
    LET coded == SelectSeq(entries, LAMBDA sti : sti.codeBlock # NullCB)
    IN  [i \in 1..Len(coded) |-> DomainOf(coded[i].codeBlock)]

\* s with every run of equal elements replaced by one of them
RECURSIVE CompressRuns(_)
CompressRuns(s) ==
    IF Len(s) <= 1 THEN s
    ELSE IF s[1] = s[2] THEN CompressRuns(Tail(s))
    ELSE <<s[1]>> \o CompressRuns(Tail(s))

\* the entries the capture of the last step pushed, the dropped one included
ThrowPushed == CapturedEntries(ret.skipTopFrame, ret.codeBlock, 5, ret.frames)

\* C22: after a successful capture no two adjacent domains are equal and
\* the list is the consecutive-run compression of the domains of the
\* entries the capture pushed, native entries contributing nothing and
\* non-adjacent repeats being kept; when the dropped last entry is native,
\* that is the compression of the domains of the entries of the trace.
C22_DomainsCompressed ==
    (ThrowCaptured /\ ret.status = "RETURNED") =>
        LET doms == Get(domains["e1"])
        IN  /\ IsSome(domains["e1"])
            /\ \A i \in 1..(Len(doms) - 1) : doms[i] # doms[i + 1]
            /\ doms = CompressRuns(EntryDomains(ThrowPushed))
            /\ ThrowPushed[Len(ThrowPushed)] = NativeInfo =>
                  doms = CompressRuns(EntryDomains(Get(stacktrace["e1"])))

\* a capture whose entries lie in domain1, domain2, domain1: all three kept
C22_Witness ==
    /\ ThrowCaptured
    /\ ret.status = "RETURNED"
    /\ EntryDomains(ThrowPushed) = <<"domain1", "domain2", "domain1">>
    /\ domains["e1"] = Some(<<"domain1", "domain2", "domain1">>)

\* the name the lookup order of displayName, then name, gives a regular
\* callable when a property with a getter is passed over
NameSkippingAccessors(callee) ==
    IF callee.displayName.kind = "data" THEN callee.displayName.value
    ELSE IF callee.name.kind = "data" THEN callee.name.value
    ELSE Undefined

\* C23: the name recorded for a regular callable is the value of its
\* non-accessor displayName, else the value of its non-accessor name, else
\* undefined; a callee with a getter for displayName and a plain name gets
\* the value of name.
C23_FallsBackToName ==
    (ThrowCaptured /\ IsSome(funcNames["e1"])) =>
        LET off == IF ret.skipTopFrame THEN 1 ELSE 0
            names == Get(funcNames["e1"])
        IN  \A j \in 1..Len(names) :
                LET callee == ret.frames[j + off].callee
                IN  callee.kind \in {"JSFunction", "NativeFunction", "BoundFunction"}
                        => names[j] = NameSkippingAccessors(callee)

C25_PublishesAtomically ==
    [][/\ (ret'.op = "recordStackTrace" /\ ret'.status = "EXCEPTION") =>
              /\ ret'.domFailure # None
              /\ stacktrace' = stacktrace
              /\ stacktrace'["e1"] = None
              /\ funcNames' = funcNames
              /\ domains' = domains
       /\ (ret'.op = "recordStackTrace" /\ ret'.domFailure # None) =>
              ret'.status = "EXCEPTION"
       /\ (Did("recordStackTrace", "e1") /\ ret.status = "EXCEPTION"
              /\ (ret.skipTopFrame => ret.frames # <<>>)) =>
              /\ ret'.status = "RETURNED"
              /\ IsSome(stacktrace'["e1"])
       /\ IsSome(stacktrace'["e1"]) => IsSome(domains'["e1"])]_vars

\* the second push of a domain failed: the call failed and e1 has no trace,
\* no names and no domains
C25_Witness ==
    /\ Did("recordStackTrace", "e1")
    /\ ret.status = "EXCEPTION"
    /\ ret.domFailure = Some(2)
    /\ stacktrace["e1"] = None
    /\ funcNames["e1"] = None
    /\ domains["e1"] = None

\* r is the result of an errorStackGetter on t that substituted the
\* placeholder for a string it could not create, stored it and returned it
PlaceholderStored(r, t) == GetterStored(r, t) /\ r.value = StacktraceTooLong

\* C26: when the result string cannot be created the read does not fail;
\* the placeholder is stored and returned, and it stays the stack value of
\* the target, so that later reads return it: after such a read only a
\* write changes the property.
C26_PlaceholderKept ==
    [][\A t \in Targets :
          /\ PlaceholderStored(ret', t) => stackProp'[t] = StoredProp(StacktraceTooLong)
          /\ PlaceholderStored(ret, t) =>
                \/ stackProp'[t] = stackProp[t]
                \/ ret'.op = "set"]_vars

\* the index a scan of the trace from entry 0 stops at: one past the first
\* entry at or after position i (from 0) whose code block is cb, the length
\* of the trace when there is none
RECURSIVE ScanFromZero(_, _, _)
ScanFromZero(trace, cb, i) ==
    IF i >= Len(trace) THEN Len(trace)
    ELSE IF cb # NullCB /\ trace[i + 1].codeBlock = cb THEN i + 1
    ELSE ScanFromZero(trace, cb, i + 1)

\* C27: popFramesUntilInclusive is idempotent and independent of history:
\* the index it leaves is the one a scan from entry 0 gives for the trace
\* and the sentinel, whatever the index was before, so a call with the
\* sentinel of the previous call changes nothing and a call with another
\* sentinel overwrites the index, possibly with a smaller one.
C27_HistoryIndependent ==
    [][\A e \in Errors :
          (ret'.op = "popFramesUntilInclusive" /\ ret'.target = e) =>
              /\ firstExposedFrameIndex'[e] =
                    ScanFromZero(Get(stacktrace[e]),
                                 ExpectedLeaf(ret'.callable), 0)
              /\ (Did("popFramesUntilInclusive", e)
                     /\ ret.callable = ret'.callable) =>
                    firstExposedFrameIndex'[e] = firstExposedFrameIndex[e]]_vars

\* a trimming with FnB after a trimming with FnA brought the index of the
\* trace cbB, cbA back from 2 to 1
C27_Witness ==
    /\ Did("popFramesUntilInclusive", "e1")
    /\ ret.callable = FnB
    /\ Len(Get(stacktrace["e1"])) = 2
    /\ Get(stacktrace["e1"])[1].codeBlock = "cbB"
    /\ Get(stacktrace["e1"])[2].codeBlock = "cbA"
    /\ firstExposedFrameIndex["e1"] = 1

\* the step was an errorStackSetter or a plain write on t returning
WroteStack(r, t) == r.op = "set" /\ r.target = t

\* the step entered the hook branch of errorStackGetter and left it calling
\* the hook: the activation pushed holds the call sites made for the hook
CalledHook == 
    /\ ret'.op = "call"
    /\ ret'.callee = "prepareStackTrace"
    /\ Len(callStack') = Len(callStack) + 1

\* C28: a write to `stack` changes the stack property of the receiver and
\* nothing else: the trace, the function names, the domains and
\* firstExposedFrameIndex of every error are left as they were, and the
\* call sites constructCallSitesArray makes afterwards are still
\* trace.length - firstExposedFrameIndex many.
C28_WriteKeepsTrace ==
    [][/\ \A t \in Targets :
             WroteStack(ret', t) =>
                 /\ UNCHANGED errorVars
                 /\ \A u \in Targets \ {t} : stackProp'[u] = stackProp[u]
                 /\ UNCHANGED <<prepareStackTrace, formattingStackTrace, callStack>>
       /\ CalledHook =>
             LET top == callStack'[Len(callStack')]
             IN  Len(top.callSites) =
                     Len(Get(stacktrace[top.error]))
                         - firstExposedFrameIndex[top.error]]_vars

\* e1 was written before any read; a read through o1 then called the hook
\* with the one call site of the one-entry trace of e1
C28_Witness ==
    /\ stackProp["e1"] = StoredProp(WrittenValue("w1"))
    /\ IsSome(stacktrace["e1"])
    /\ Len(Get(stacktrace["e1"])) = 1
    /\ firstExposedFrameIndex["e1"] = 0
    /\ ret.op = "call" /\ ret.target = "o1"
    /\ callStack # <<>>
    /\ callStack[Len(callStack)].kind = "hook"
    /\ callStack[Len(callStack)].error = "e1"
    /\ Len(callStack[Len(callStack)].callSites) = 1

\* r is the result of an errorStackGetter on a receiver that leads to no error
ReadWithoutError(r, t) ==
    /\ r.op = "get" /\ r.target = t
    /\ getErrorFromStackTarget(t) = None

\* C29: the formatted value is memoized on the receiver of the read and not
\* on the error it leads to.  An errorStackGetter that returns a formatted
\* value has defined it on its receiver and left the stack property of
\* every other object, the error included, as it was; the hook is called
\* with the receiver as target and the call sites of the error; and a read
\* on a receiver that leads to no error returns undefined and changes
\* nothing.
C29_MemoizedOnReceiver ==
    [][\A t \in Targets :
          /\ GetterStored(ret', t) =>
                /\ stackProp'[t] = StoredProp(ret'.value)
                /\ \A u \in Targets \ {t} : stackProp'[u] = stackProp[u]
          /\ (CalledHook /\ ret'.target = t) =>
                LET top == callStack'[Len(callStack')]
                IN  /\ top.target = t
                    /\ Some(top.error) = getErrorFromStackTarget(t)
          /\ ReadWithoutError(ret', t) =>
                /\ ret'.status = "RETURNED"
                /\ ret'.value = UndefinedValue
                /\ UNCHANGED <<errorVars, stackProp, prepareStackTrace,
                               formattingStackTrace, callStack>>]_vars

\* a read through o1 stored the hook's result on o1 and left the accessor
\* on e1; the read of e1 that followed entered errorStackGetter and is
\* formatting again
C29_Witness ==
    /\ stackProp["o1"] = StoredProp(HookValue("h1"))
    /\ stackProp["e1"] = AccessorProp
    /\ ret.op = "call" /\ ret.target = "e1"
    /\ Len(callStack) = 1
    /\ callStack[1].target = "e1"

\* C30: recordStackTrace never removes the trailing entry from an empty
\* buffer, as the claim states it.  Whenever a call has reached the removal
\* of the last entry, with either value of skipTopFrame and any number of
\* live frames, the buffer held at least one entry at that point.
C30_BufferNeverEmptyAtPop ==
    (ret.op = "recordStackTrace" /\ IsSome(ret.sizeAtPop)) =>
        Get(ret.sizeAtPop) >= 1

=============================================================================
